---- MODULE Spec2Model ----
(***************************************************************************)
(* Model of apps/bb_processor.py: the Bird Buddy event processor.          *)
(*                                                                         *)
(* An inbound event (a nested mapping with camelCase keys) is validated    *)
(* into a BBEventModel, ReportFormatter.report reconciles medias with      *)
(* sightings into an AutomationReport, format_slack_message renders the    *)
(* report into Slack blocks, and process_event fires one outbound event.   *)
(*                                                                         *)
(* Mappings (Python dicts) are TLA+ functions with string domains, so the  *)
(* presence of a key is a question about DOMAIN.  Formatted strings are    *)
(* sequences of their pieces.  Url objects are records [url |-> s].        *)
(***************************************************************************)
EXTENDS Integers, Sequences, FiniteSets, TLC

(***************************************************************************)
(* Bounds of the model.                                                    *)
(***************************************************************************)
MaxSightings == 2
MaxMedias == 2
MaxTokens == 3
MaxSuggestions == 2

\* The most calls of format_slack_message on one formatter.
MaxFormatCalls == 2

\* The most initialize calls and the most cancel_listen_event calls.
MaxInitialize == 3

MaxCancels == 4

Range(s) == {s[i] : i \in DOMAIN s}

SeqsUpTo(S, n) == UNION {[1..k -> S] : k \in 0..n}

(***************************************************************************)
(* Input pools: the values the raw event is drawn from.                    *)
(***************************************************************************)
MediaIds == {"m-1", "m-2"}

RawSpecies(n, nm) ==
    [id |-> n, iconUrl |-> <<"http://example.com/icon/", n>>, name |-> nm,
     isUnofficialName |-> FALSE, mapUrl |-> <<"http://example.com/map/", n>>]

RawSpeciesPool == {RawSpecies("sp-1", "Robin"), RawSpecies("sp-2", "Wren")}

RawMedia(i, path) ==
    [id |-> i, createdAt |-> "2024-04-06T08:08:36.208Z",
     thumbnailUrl |-> <<"http://example.com/thumb/", path>>,
     contentUrl |-> <<"http://example.com/content/", path>>]

RawMediaPool == {RawMedia("m-1", "1.jpg"), RawMedia("m-2", "2.jpg"), RawMedia("m-1", "3.jpg")}

RawVideo ==
    [id |-> "v-1", createdAt |-> "2024-04-06T08:08:36.208Z",
     thumbnailUrl |-> <<"http://example.com/vthumb.jpg">>,
     contentUrl |-> <<"http://example.com/vcontent.mp4">>]

RawFeeder == [id |-> "f-1", name |-> "Test Feeder", state |-> "READY"]

RawPostcard == [id |-> "p-1", createdAt |-> "2024-04-06T08:08:38.055Z"]

RawSuggestionPool ==
    {[isCollected |-> c, species |-> sp] : c \in BOOLEAN, sp \in RawSpeciesPool}

Typenames == {"SightingCantDecideWhichBird", "SightingRecognizedBird"}

(***************************************************************************)
(* Domain model: validation of the raw mappings (pydantic models).         *)
(***************************************************************************)
\* HttpUrl: the validated Url object of a url string; str() gives it back.
HttpUrl(s) == [url |-> s]

UrlStr(u) == u.url

Feeder(raw) == [id |-> raw.id, name |-> raw.name, state |-> raw.state]

Media(raw) ==
    [id |-> raw.id, created_at |-> raw.createdAt,
     thumbnail_url |-> HttpUrl(raw.thumbnailUrl),
     content_url |-> HttpUrl(raw.contentUrl)]

Species(raw) ==
    [id |-> raw.id, icon_url |-> HttpUrl(raw.iconUrl), name |-> raw.name,
     is_unofficial_name |-> raw.isUnofficialName, map_url |-> HttpUrl(raw.mapUrl)]

Suggestion(raw) == [is_collected |-> raw.isCollected, species |-> Species(raw.species)]

RecognizedKeys ==
    {"id", "matchTokens", "color", "text", "count", "icon", "shareableMatchTokens", "species"}

CantDecideKeys == {"id", "matchTokens", "suggestions"}

\* Variant: unknown keys are kept, so a recognized bird keeps the
\* suggestions it came with.
SightingRecognizedBirdKeepExtra(raw) ==
    [cls |-> "SightingRecognizedBird", id |-> raw.id, match_tokens |-> raw.matchTokens,
     color |-> raw.color, text |-> raw.text, count |-> raw.count, icon |-> raw.icon,
     shareable_match_tokens |-> raw.shareableMatchTokens, species |-> Species(raw.species)]
    @@ (IF "suggestions" \in DOMAIN raw
        THEN [suggestions |-> [i \in DOMAIN raw.suggestions |-> Suggestion(raw.suggestions[i])]]
        ELSE << >>)

SightingRecognizedBird(raw) ==
    [cls |-> "SightingRecognizedBird", id |-> raw.id, match_tokens |-> raw.matchTokens,
     color |-> raw.color, text |-> raw.text, count |-> raw.count, icon |-> raw.icon,
     shareable_match_tokens |-> raw.shareableMatchTokens, species |-> Species(raw.species)]

SightingCantDecideWhichBird(raw) ==
    [cls |-> "SightingCantDecideWhichBird", id |-> raw.id, match_tokens |-> raw.matchTokens,
     suggestions |-> [i \in DOMAIN raw.suggestions |-> Suggestion(raw.suggestions[i])],
     typename |-> IF "__typename" \in DOMAIN raw THEN raw["__typename"]
                  ELSE "SightingCantDecideWhichBird"]

\* The union SightingRecognizedBird | SightingCantDecideWhichBird: the member
\* the raw object validates as (unknown keys are ignored by either member; an
\* object valid as both has more fields set as a recognized bird, which is
\* also the first member).
ValidRecognized(raw) == RecognizedKeys \subseteq DOMAIN raw

ValidCantDecide(raw) == CantDecideKeys \subseteq DOMAIN raw

\* Variant: a non-empty suggestions list decides the member before the
\* recognized field set is looked at.
ParseSightingBySuggestions(raw) ==
    IF ValidCantDecide(raw) /\ raw.suggestions # << >>
    THEN [ok |-> TRUE, value |-> SightingCantDecideWhichBird(raw)]
    ELSE IF ValidRecognized(raw) THEN [ok |-> TRUE, value |-> SightingRecognizedBird(raw)]
    ELSE IF ValidCantDecide(raw) THEN [ok |-> TRUE, value |-> SightingCantDecideWhichBird(raw)]
    ELSE [ok |-> FALSE]

ParseSighting(raw) ==
    IF ValidRecognized(raw) THEN [ok |-> TRUE, value |-> SightingRecognizedBird(raw)]
    ELSE IF ValidCantDecide(raw) THEN [ok |-> TRUE, value |-> SightingCantDecideWhichBird(raw)]
    ELSE [ok |-> FALSE]

(***************************************************************************)
(* Token decoder: SightingReport.validate_report_token.                    *)
(*                                                                         *)
(* A token string is modelled by what a compact-JWT parser sees in it:     *)
(*   [kind |-> "str", text |-> s]   a string without three valid segments  *)
(*   [kind |-> "jwt", key |-> k, payload_json |-> b, payload |-> f]        *)
(* where payload_json says whether the payload segment is a JSON object    *)
(* and payload is that object (a mapping from keys to strings).            *)
(***************************************************************************)
SigningKeys == {"secret", "other-key"}

InnerStrings == {"{\"dummy\": \"value\"}", "{\"feeder_id\": \"test\"}", "not json"}

Jwt(k, isjson, obj) == [kind |-> "jwt", key |-> k, payload_json |-> isjson, payload |-> obj]

PayloadPool ==
    {[reportToken |-> s] : s \in InnerStrings} \cup {[iss |-> "birdbuddy"]}

TokenPool ==
    {[kind |-> "str", text |-> ""], [kind |-> "str", text |-> "invalid_token"]}
    \cup {Jwt(k, TRUE, obj) : k \in SigningKeys, obj \in PayloadPool}
    \cup {Jwt(k, FALSE, << >>) : k \in SigningKeys}

\* json.loads on the strings of InnerStrings.
JsonLoads(s) ==
    IF s = "{\"dummy\": \"value\"}" THEN [ok |-> TRUE, value |-> [dummy |-> "value"]]
    ELSE IF s = "{\"feeder_id\": \"test\"}" THEN [ok |-> TRUE, value |-> [feeder_id |-> "test"]]
    ELSE [ok |-> FALSE]

\* Variant: the signature is verified against the key "secret".
JwtDecodeVerified(value) ==
    IF value.kind = "jwt" /\ value.payload_json /\ value.key = "secret"
    THEN [ok |-> TRUE, value |-> value.payload]
    ELSE [ok |-> FALSE]

\* jwt.decode(value, options={'verify_signature': False}).
JwtDecode(value) ==
    IF value.kind = "jwt" /\ value.payload_json
    THEN [ok |-> TRUE, value |-> value.payload]
    ELSE [ok |-> FALSE]

Truthy(value) == ~(value.kind = "str" /\ value.text = "")

\* The validator's outcome: raised = "" and the stored value, or the
\* exception that leaves the validator.
validate_report_token(value) ==
    IF ~Truthy(value) THEN [raised |-> "UnboundLocalError", msg |-> "decoded"]
    ELSE LET decoded == JwtDecode(value) IN
         IF ~decoded.ok THEN [raised |-> "ValueError", msg |-> "Invalid JWT token"]
         ELSE IF "reportToken" \notin DOMAIN decoded.value
              THEN [raised |-> "KeyError", msg |-> "reportToken"]
         ELSE LET inner == JsonLoads(decoded.value.reportToken) IN
              IF ~inner.ok THEN [raised |-> "JSONDecodeError", msg |-> "Expecting value"]
              ELSE [raised |-> "", value |-> inner.value]

\* Exceptions a field validator may raise that become a ValidationError.
ValueErrors == {"ValueError", "JSONDecodeError"}

\* SightingReport(reportToken=..., sightings=...): the report, or the error
\* that construction fails with.
SightingReport(raw) ==
    LET tok == validate_report_token(raw.reportToken)
        parsed == [i \in DOMAIN raw.sightings |-> ParseSighting(raw.sightings[i])]
        badSightings == \E i \in DOMAIN parsed : ~parsed[i].ok
    IN  IF tok.raised # "" /\ tok.raised \notin ValueErrors
        THEN [ok |-> FALSE, error |-> [kind |-> tok.raised, msgs |-> {tok.msg}]]
        ELSE IF tok.raised # "" \/ badSightings
        THEN [ok |-> FALSE,
              error |-> [kind |-> "ValidationError",
                         msgs |-> (IF tok.raised # "" THEN {tok.msg} ELSE {})
                                  \cup (IF badSightings THEN {"sightings"} ELSE {})]]
        ELSE [ok |-> TRUE,
              value |-> [report_token |-> tok.value,
                         sightings |-> [i \in DOMAIN parsed |-> parsed[i].value]]]

\* BBEventModel(**data).
BBEventModel(raw) ==
    LET sr == SightingReport(raw.sighting.sightingReport) IN
    IF ~sr.ok THEN sr
    ELSE [ok |-> TRUE,
          value |-> [postcard |-> [id |-> raw.postcard.id, created_at |-> raw.postcard.createdAt],
                     sighting |-> [feeder |-> Feeder(raw.sighting.feeder),
                                   medias |-> [i \in DOMAIN raw.sighting.medias |->
                                                  Media(raw.sighting.medias[i])],
                                   sighting_report |-> sr.value,
                                   video_media |-> Media(raw.sighting.videoMedia)]]]

(***************************************************************************)
(* Reconciliation engine: ReportFormatter.report.                          *)
(***************************************************************************)
SightedBird(sp, urls, video) == [species |-> sp, image_urls |-> urls, video_media |-> video]

\* Variant: the loops nested the other way round, match tokens outermost.
MediaUrlsByToken(medias, sighting) ==
    LET tokens == sighting.match_tokens
        ofToken[t \in 0..Len(tokens)] ==
            IF t = 0 THEN << >>
            ELSE ofToken[t - 1]
                 \o LET hit[i \in 0..Len(medias)] ==
                            IF i = 0 THEN << >>
                            ELSE IF medias[i].id = tokens[t]
                                 THEN Append(hit[i - 1], medias[i].content_url)
                                 ELSE hit[i - 1]
                    IN  hit[Len(medias)]
    IN  ofToken[Len(tokens)]

\* The inner loop: content urls of the medias whose id is a match token.
MediaUrls(medias, sighting) ==
    LET acc[i \in 0..Len(medias)] ==
            IF i = 0 THEN << >>
            ELSE IF medias[i].id \in Range(sighting.match_tokens)
                 THEN Append(acc[i - 1], medias[i].content_url)
                 ELSE acc[i - 1]
    IN  acc[Len(medias)]

IsRecognized(sighting) == sighting.cls = "SightingRecognizedBird"

HasSuggestions(sighting) ==
    /\ "suggestions" \in DOMAIN sighting
    /\ sighting.suggestions # << >>
    /\ Len(sighting.suggestions) > 0

\* Variant: the first collected suggestion is preferred to the first one.
BestGuessCollected(sighting) ==
    LET g == sighting.suggestions
        collected == {i \in DOMAIN g : g[i].is_collected}
    IN  IF collected = {} THEN g[1].species
        ELSE g[CHOOSE i \in collected : \A j \in collected : i <= j].species

BestGuess(sighting) == sighting.suggestions[1].species

\* The birds one pass of the loop body appends for one sighting.
SightingBirds(bs, sighting) ==
    LET media_urls == MediaUrls(bs.medias, sighting) IN
    (IF IsRecognized(sighting)
     THEN <<SightedBird(sighting.species, media_urls, bs.video_media)>>
     ELSE << >>)
    \o
    (IF HasSuggestions(sighting)
     THEN <<SightedBird(BestGuess(sighting), media_urls, bs.video_media)>>
     ELSE << >>)

\* Variant: a species already in the report is not appended again.
BuildReportDedup(model) ==
    LET bs == model.sighting
        sightings == bs.sighting_report.sightings
        fresh(acc, new) ==
            SelectSeq(new, LAMBDA b : \A k \in DOMAIN acc : acc[k].species # b.species)
        birds[i \in 0..Len(sightings)] ==
            IF i = 0 THEN << >>
            ELSE birds[i - 1] \o fresh(birds[i - 1], SightingBirds(bs, sightings[i]))
    IN  [feeder |-> bs.feeder, birds_sighted |-> birds[Len(sightings)]]

\* Variant: media_urls is created once, before the loop over the sightings,
\* so that each sighting also carries the urls of the sightings before it.
BuildReportSharedUrls(model) ==
    LET bs == model.sighting
        sightings == bs.sighting_report.sightings
        urls[i \in 0..Len(sightings)] ==
            IF i = 0 THEN << >> ELSE urls[i - 1] \o MediaUrls(bs.medias, sightings[i])
        withUrls(new, u) == [k \in DOMAIN new |-> [new[k] EXCEPT !.image_urls = u]]
        birds[i \in 0..Len(sightings)] ==
            IF i = 0 THEN << >>
            ELSE birds[i - 1] \o withUrls(SightingBirds(bs, sightings[i]), urls[i])
    IN  [feeder |-> bs.feeder, birds_sighted |-> birds[Len(sightings)]]

BuildReport(model) ==
    LET bs == model.sighting
        sightings == bs.sighting_report.sightings
        birds[i \in 0..Len(sightings)] ==
            IF i = 0 THEN << >> ELSE birds[i - 1] \o SightingBirds(bs, sightings[i])
    IN  [feeder |-> bs.feeder, birds_sighted |-> birds[Len(sightings)]]

\* AutomationReport.model_dump(): field names as keys, ids and urls as strings.
DumpMedia(m) ==
    [id |-> m.id, created_at |-> m.created_at,
     thumbnail_url |-> UrlStr(m.thumbnail_url), content_url |-> UrlStr(m.content_url)]

DumpSpecies(sp) ==
    [id |-> sp.id, icon_url |-> UrlStr(sp.icon_url), name |-> sp.name,
     is_unofficial_name |-> sp.is_unofficial_name, map_url |-> UrlStr(sp.map_url)]

DumpBird(b) ==
    [species |-> DumpSpecies(b.species),
     image_urls |-> [i \in DOMAIN b.image_urls |-> UrlStr(b.image_urls[i])],
     video_media |-> DumpMedia(b.video_media)]

ModelDump(r) ==
    [feeder |-> r.feeder,
     birds_sighted |-> [i \in DOMAIN r.birds_sighted |-> DumpBird(r.birds_sighted[i])]]

\* Validation of a mapping back into the models: a field with an alias is
\* read under its alias only.
SpeciesAliases == {"id", "iconUrl", "name", "isUnofficialName", "mapUrl"}

MediaAliases == {"id", "createdAt", "thumbnailUrl", "contentUrl"}

FeederFields == {"id", "name", "state"}

ValidSightedBird(d) ==
    /\ {"species", "video_media"} \subseteq DOMAIN d
    /\ SpeciesAliases \subseteq DOMAIN d.species
    /\ MediaAliases \subseteq DOMAIN d.video_media

\* AutomationReport(**d): birds_sighted is a list of SightedBird or a list
\* of None.
AutomationReport(d) ==
    IF /\ FeederFields \subseteq DOMAIN d.feeder
       /\ \A i \in DOMAIN d.birds_sighted : ValidSightedBird(d.birds_sighted[i])
    THEN [ok |-> TRUE,
          value |-> [feeder |-> Feeder(d.feeder),
                     birds_sighted |->
                        [i \in DOMAIN d.birds_sighted |->
                           SightedBird(Species(d.birds_sighted[i].species),
                                       [k \in DOMAIN d.birds_sighted[i].image_urls |->
                                          HttpUrl(d.birds_sighted[i].image_urls[k])],
                                       Media(d.birds_sighted[i].video_media))]]]
    ELSE [ok |-> FALSE, error |-> [kind |-> "ValidationError", msgs |-> {"birds_sighted"}]]


(***************************************************************************)
(* Presentation renderer: format_slack_message and create_slack_blocks.    *)
(***************************************************************************)
\* str() of a small natural number.
Str(n) == <<"0", "1", "2", "3", "4", "5", "6", "7", "8", "9">>[n + 1]

\* What the enrichment lookup (wikipedia.search, then wikipedia.page) does
\* for one bird: the search raises, finds nothing, or finds a title whose
\* page fetch raises or returns a page.
LookupOutcomes ==
    {[search |-> "raises"], [search |-> "empty"],
     [search |-> "found", page |-> "raises"],
     [search |-> "found", page |-> "ok", url |-> "http://example.com/wiki/Bird",
      title |-> "Bird", summary |-> "A bird."]}

LookupRaises(lookup) ==
    lookup.search = "raises" \/ (lookup.search = "found" /\ lookup.page = "raises")

\* Variant: the singular for every count up to one.
BirdTextUpToOne(birds_count) == IF birds_count <= 1 THEN "bird" ELSE "birds"

BirdText(birds_count) == IF birds_count = 1 THEN "bird" ELSE "birds"

HeaderText(birds_count) ==
    <<"New Bird Sighting! ", Str(birds_count), " ", BirdText(birds_count), " sighted!">>

HeaderBlock(text) == [type |-> "header", text |-> [type |-> "plain_text", text |-> text]]

DividerBlock == [type |-> "divider"]

ContextBlock(species) ==
    [type |-> "context",
     elements |-> <<[type |-> "image", image_url |-> UrlStr(species.icon_url),
                     alt_text |-> species.name],
                    [type |-> "mrkdwn", text |-> <<"*", species.name, "*">>]>>]

FallbackText(species) == <<species.name, " was sighted!">>

BirdSummary(species, lookup) ==
    IF lookup.search = "found"
    THEN <<"*<", lookup.url, "|", lookup.title, ">*\n">>
    ELSE FallbackText(species)

SectionBlock(species, text) ==
    [type |-> "section", text |-> [type |-> "mrkdwn", text |-> text],
     accessory |-> [type |-> "image", image_url |-> UrlStr(species.map_url),
                    alt_text |-> <<"You can spot ", species.name,
                                   " in the highlighted area.">>]]

ImageBlock(species, media_url, count) ==
    [type |-> "image",
     title |-> [type |-> "plain_text", text |-> <<species.name, " was sighted!">>],
     image_url |-> UrlStr(media_url),
     alt_text |-> <<species.name, "-", Str(count + 1)>>]

ImageBlocks(bird) ==
    [i \in DOMAIN bird.image_urls |-> ImageBlock(bird.species, bird.image_urls[i], i - 1)]

\* Variant: only the first image url gets an image block.
create_slack_blocks_first_image(bird, lookup) ==
    <<ContextBlock(bird.species),
      SectionBlock(bird.species, BirdSummary(bird.species, lookup))>>
    \o SubSeq(ImageBlocks(bird), 1, IF bird.image_urls = << >> THEN 0 ELSE 1)

\* SightedBird.create_slack_blocks when the lookup does not raise.
create_slack_blocks(bird, lookup) ==
    <<ContextBlock(bird.species),
      SectionBlock(bird.species, BirdSummary(bird.species, lookup))>>
    \o ImageBlocks(bird)

(***************************************************************************)
(* State: one call of BirdBuddyEventProcessor.process_event.               *)
(***************************************************************************)
VARIABLES
    data,            \* the raw inbound event
    pc,              \* the position of process_event
    model,           \* formatter.model, << >> before construction
    report,          \* the cached_property: << >> or <<the report>>
    report_dump,     \* the local `report` of process_event (the dump)
    message_blocks,  \* format_slack_message's message_blocks
    bird_idx,        \* the bird the render loop is at
    lookups,         \* the lookup outcome seen for each bird rendered so far
    fired,           \* the outbound events fired
    raised,          \* the exception that left process_event, or NoError
    report_builds,   \* how often the body of the report property has run
    format_calls,    \* the calls of format_slack_message that have returned
    birds_sighted_default,  \* the default list of AutomationReport.birds_sighted
    parked,          \* << >>, or <<the locals of a second call of process_event>>
    listen_event_handle_list,  \* the class attribute of BirdBuddyEventProcessor
    registered,      \* the listen_event calls the host has seen
    cancelled        \* the cancel_listen_event calls the host has seen

\* The state of one call of process_event.
call_vars == <<data, pc, model, report, report_dump, message_blocks, bird_idx, lookups,
               raised, report_builds>>

\* The state of the app's life cycle.
host_vars == <<listen_event_handle_list, registered, cancelled>>

vars == <<call_vars, fired, format_calls, birds_sighted_default, parked, host_vars>>

NoError == [kind |-> "", msgs |-> {}]

emit_event_name == "birdbuddy_new_postcard_sighting_report"

(***************************************************************************)
(* The inbound events.                                                     *)
(***************************************************************************)
RecognizedPart(sp) ==
    [color |-> "YELLOW", text |-> "Test sighting", count |-> 1, icon |-> "HEART",
     shareableMatchTokens |-> << >>, species |-> sp]

Base(t) == [id |-> "s-1", matchTokens |-> t]

SuggestionsPart(g) == [suggestions |-> g]

TypenamePart(n) == ("__typename" :> n)

Absent == << >>

GoodToken == Jwt("secret", TRUE, [reportToken |-> "{\"dummy\": \"value\"}"])

Media1 == RawMedia("m-1", "1.jpg")

Media2 == RawMedia("m-2", "2.jpg")

Robin == RawSpecies("sp-1", "Robin")

Wren == RawSpecies("sp-2", "Wren")

\* Sighting objects of every shape: with or without the recognized field
\* set, with or without a suggestions list, with or without a type tag.
ShapeSightings ==
    {Base(<<"m-1">>) @@ r @@ g @@ y :
        r \in {Absent} \cup {RecognizedPart(sp) : sp \in RawSpeciesPool},
        g \in {Absent} \cup {SuggestionsPart(x) :
                                x \in SeqsUpTo(RawSuggestionPool, MaxSuggestions)},
        y \in {Absent} \cup {TypenamePart(n) : n \in Typenames}}

\* Sighting objects with every list of match tokens.
MatchSightings ==
    {Base(t) @@ x :
        t \in SeqsUpTo(MediaIds \cup {"m-9"}, MaxTokens),
        x \in {RecognizedPart(Robin),
               SuggestionsPart(<<[isCollected |-> FALSE, species |-> Wren]>>)}}

\* Sighting objects that events with several sightings are made of.
OrderSightings ==
    {Base(t) @@ x :
        t \in {<< >>, <<"m-1">>},
        x \in {RecognizedPart(sp) : sp \in RawSpeciesPool}
              \cup {SuggestionsPart(g) : g \in SeqsUpTo(RawSuggestionPool, 1)}}

Event(medias, token, sightings) ==
    [postcard |-> RawPostcard,
     sighting |-> [feeder |-> RawFeeder, medias |-> medias,
                   sightingReport |-> [reportToken |-> token, sightings |-> sightings],
                   videoMedia |-> RawVideo]]

\* The events: every token on a small event, every media list against every
\* match-token list, every sighting shape, and every short list of sightings.
Events ==
    {Event(<<Media1>>, t, s) :
        t \in TokenPool,
        s \in SeqsUpTo({Base(<<"m-1">>) @@ RecognizedPart(Robin), Base(<<"m-1">>)}, 1)}
    \cup {Event(m, GoodToken, <<s>>) :
            m \in SeqsUpTo(RawMediaPool, MaxMedias), s \in MatchSightings}
    \cup {Event(<<Media1>>, GoodToken, <<s>>) : s \in ShapeSightings}
    \cup {Event(<<Media1, Media2>>, GoodToken, ss) :
            ss \in SeqsUpTo(OrderSightings, MaxSightings)}

\* The events one formatter is exercised on.
FormatterEvents ==
    {Event(<<Media1, Media2>>, GoodToken, ss) :
        ss \in SeqsUpTo({Base(<<"m-1">>) @@ RecognizedPart(Robin),
                         Base(<< >>) @@ SuggestionsPart(<<[isCollected |-> FALSE,
                                                           species |-> Wren]>>),
                         Base(<<"m-2">>) @@ SuggestionsPart(<< >>)}, MaxSightings)}

\* The events two calls of process_event are exercised on: one bird, two
\* birds, and a token that does not decode.
TwoEvents ==
    {Event(<<Media1>>, GoodToken, <<Base(<<"m-1">>) @@ RecognizedPart(Robin)>>),
     Event(<<Media1, Media2>>, GoodToken,
           <<Base(<<"m-2">>) @@ SuggestionsPart(<<[isCollected |-> FALSE,
                                                   species |-> Wren]>>),
             Base(<<"m-1">>) @@ RecognizedPart(Robin)>>),
     Event(<<Media1>>, [kind |-> "str", text |-> "invalid_token"], << >>)}

\* The app instances configured with the class BirdBuddyEventProcessor.
Apps == {"bird_buddy", "bird_buddy_garden"}

\* Everything but the inbound events, as it is before the first call.
Fresh ==
    /\ pc = "start"
    /\ model = << >>
    /\ report = << >>
    /\ report_dump = << >>
    /\ message_blocks = << >>
    /\ bird_idx = 0
    /\ lookups = << >>
    /\ fired = << >>
    /\ raised = NoError
    /\ report_builds = 0
    /\ format_calls = 0
    /\ birds_sighted_default = << >>
    /\ listen_event_handle_list = << >>
    /\ registered = << >>
    /\ cancelled = << >>

Init ==
    /\ data \in Events
    /\ parked = << >>
    /\ Fresh

(***************************************************************************)
(* process_event, statement by statement.                                  *)
(***************************************************************************)
\* formatter = ReportFormatter(BBEventModel(**data))
Validate ==
    /\ pc = "start"
    /\ LET m == BBEventModel(data) IN
       IF m.ok
       THEN /\ model' = <<m.value>>
            /\ pc' = "formatter"
            /\ raised' = raised
       ELSE /\ model' = model
            /\ pc' = "raised"
            /\ raised' = m.error
    /\ UNCHANGED <<data, report, report_dump, message_blocks, bird_idx, lookups, fired,
                   report_builds, format_calls, birds_sighted_default, parked, host_vars>>

\* AutomationReport(feeder=...): birds_sighted starts as the default list, and
\* the build pass appends to it.
FromDefault(default, built) == [built EXCEPT !.birds_sighted = default \o @]

\* formatter.report: the cached property, computed on its first access.
ReportOf(cache, m) ==
    IF cache = << >> THEN FromDefault(birds_sighted_default, BuildReport(m)) ELSE cache[1]

\* Variant: a plain property, whose body runs on every access.
BuildsOnEveryAccess(cache, n) == n + 1

\* The runs of the body of the report property after one more access.
Builds(cache, n) == IF cache = << >> THEN n + 1 ELSE n

\* Variant: the new report holds the default list itself, so what the build
\* pass appends is in the default of the next report.
DefaultSharedByReports(default, birds) == birds

\* The default list after a build pass: the new report got a copy of it.
DefaultAfterBuild(default, birds) == default

\* One access of formatter.report.
AccessReport ==
    /\ report' = <<ReportOf(report, model[1])>>
    /\ report_builds' = Builds(report, report_builds)
    /\ birds_sighted_default' =
          IF report = << >>
          THEN DefaultAfterBuild(birds_sighted_default,
                                 ReportOf(report, model[1]).birds_sighted)
          ELSE birds_sighted_default

\* self.log('Report to send: %s', formatter.report)
LogReport ==
    /\ pc = "formatter"
    /\ AccessReport
    /\ pc' = "logged"
    /\ UNCHANGED <<data, model, report_dump, message_blocks, bird_idx, lookups, fired,
                   raised, format_calls, parked, host_vars>>

\* report = formatter.report.model_dump()
DumpReport ==
    /\ pc = "logged"
    /\ AccessReport
    /\ report_dump' = <<ModelDump(ReportOf(report, model[1]))>>
    /\ pc' = "dumped"
    /\ UNCHANGED <<data, model, message_blocks, bird_idx, lookups, fired, raised,
                   format_calls, parked, host_vars>>

\* format_slack_message up to its loop: the header and the divider.
FormatHeader ==
    /\ pc = "dumped"
    /\ AccessReport
    /\ LET birds_count == Len(ReportOf(report, model[1]).birds_sighted) IN
       message_blocks' = <<HeaderBlock(HeaderText(birds_count)), DividerBlock>>
    /\ bird_idx' = 1
    /\ pc' = "rendering"
    /\ UNCHANGED <<data, model, report_dump, lookups, fired, raised, format_calls,
                   parked, host_vars>>

\* Variant: when the lookup raises, the report alone is fired before the
\* error leaves.
RenderBirdPartialFire ==
    /\ pc = "rendering"
    /\ bird_idx <= Len(report[1].birds_sighted)
    /\ \E lookup \in LookupOutcomes :
         /\ lookups' = Append(lookups, lookup)
         /\ IF LookupRaises(lookup)
            THEN /\ pc' = "raised"
                 /\ raised' = [kind |-> "WikipediaException", msgs |-> {}]
                 /\ fired' = Append(fired, [name |-> emit_event_name,
                                            report |-> report_dump[1]])
                 /\ UNCHANGED <<message_blocks, bird_idx>>
            ELSE /\ message_blocks' =
                       message_blocks
                       \o create_slack_blocks(report[1].birds_sighted[bird_idx], lookup)
                 /\ bird_idx' = bird_idx + 1
                 /\ UNCHANGED <<pc, raised, fired>>
    /\ UNCHANGED <<data, model, report, report_dump, report_builds, format_calls,
                   birds_sighted_default, parked, host_vars>>

\* Variant: a lookup that raises is tried a second time before the error
\* leaves.
RenderBirdRetry ==
    /\ pc = "rendering"
    /\ bird_idx <= Len(report[1].birds_sighted)
    /\ \E lookup \in LookupOutcomes :
         IF LookupRaises(lookup)
         THEN /\ lookups' = lookups \o <<lookup, lookup>>
              /\ pc' = "raised"
              /\ raised' = [kind |-> "WikipediaException", msgs |-> {}]
              /\ UNCHANGED <<message_blocks, bird_idx>>
         ELSE /\ lookups' = Append(lookups, lookup)
              /\ message_blocks' =
                     message_blocks
                     \o create_slack_blocks(report[1].birds_sighted[bird_idx], lookup)
              /\ bird_idx' = bird_idx + 1
              /\ UNCHANGED <<pc, raised>>
    /\ UNCHANGED <<data, model, report, report_dump, fired, report_builds, format_calls,
                   birds_sighted_default, parked, host_vars>>

\* One pass of the loop of format_slack_message: create_slack_blocks of the
\* next bird, whose lookup raises or not.
RenderBird ==
    /\ pc = "rendering"
    /\ bird_idx <= Len(report[1].birds_sighted)
    /\ \E lookup \in LookupOutcomes :
         /\ lookups' = Append(lookups, lookup)
         /\ IF LookupRaises(lookup)
            THEN /\ pc' = "raised"
                 /\ raised' = [kind |-> "WikipediaException", msgs |-> {}]
                 /\ UNCHANGED <<message_blocks, bird_idx>>
            ELSE /\ message_blocks' =
                       message_blocks
                       \o create_slack_blocks(report[1].birds_sighted[bird_idx], lookup)
                 /\ bird_idx' = bird_idx + 1
                 /\ UNCHANGED <<pc, raised>>
    /\ UNCHANGED <<data, model, report, report_dump, fired, report_builds, format_calls,
                   birds_sighted_default, parked, host_vars>>

\* The loop is over: format_slack_message returns, and process_event fires.
FireEvent ==
    /\ pc = "rendering"
    /\ bird_idx > Len(report[1].birds_sighted)
    /\ fired' = Append(fired, [name |-> emit_event_name, report |-> report_dump[1],
                               slack_message |-> message_blocks])
    /\ pc' = "done"
    /\ UNCHANGED <<data, model, report, report_dump, message_blocks, bird_idx, lookups,
                   raised, report_builds, format_calls, birds_sighted_default, parked,
                   host_vars>>

Next ==
    \/ Validate
    \/ LogReport
    \/ DumpReport
    \/ FormatHeader
    \/ RenderBird
    \/ FireEvent

Spec == Init /\ [][Next]_vars

(***************************************************************************)
(* One ReportFormatter used outside process_event: its report is read and  *)
(* format_slack_message is called on it again and again.                   *)
(***************************************************************************)
InitFormatter ==
    /\ data \in FormatterEvents
    /\ parked = << >>
    /\ Fresh

\* The loop is over: format_slack_message returns message_blocks.
FormatReturn ==
    /\ pc = "rendering"
    /\ bird_idx > Len(report[1].birds_sighted)
    /\ pc' = "returned"
    /\ format_calls' = format_calls + 1
    /\ UNCHANGED <<data, model, report, report_dump, message_blocks, bird_idx, lookups,
                   fired, raised, report_builds, birds_sighted_default, parked, host_vars>>

\* The caller calls format_slack_message once more: message_blocks = []
FormatAgain ==
    /\ pc = "returned"
    /\ format_calls < MaxFormatCalls
    /\ message_blocks' = << >>
    /\ bird_idx' = 0
    /\ lookups' = << >>
    /\ pc' = "dumped"
    /\ UNCHANGED <<data, model, report, report_dump, fired, raised, report_builds,
                   format_calls, birds_sighted_default, parked, host_vars>>

NextFormatter ==
    \/ Validate
    \/ LogReport
    \/ DumpReport
    \/ FormatHeader
    \/ RenderBird
    \/ FormatReturn
    \/ FormatAgain

SpecFormatter == InitFormatter /\ [][NextFormatter]_vars

(***************************************************************************)
(* Two calls of process_event on two inbound events, interleaved in every  *)
(* way: one call runs while the other is parked.                           *)
(***************************************************************************)
Locals ==
    [data |-> data, pc |-> pc, model |-> model, report |-> report,
     report_dump |-> report_dump, message_blocks |-> message_blocks,
     bird_idx |-> bird_idx, lookups |-> lookups, raised |-> raised,
     report_builds |-> report_builds]

StartLocals(d) ==
    [data |-> d, pc |-> "start", model |-> << >>, report |-> << >>,
     report_dump |-> << >>, message_blocks |-> << >>, bird_idx |-> 0,
     lookups |-> << >>, raised |-> NoError, report_builds |-> 0]

InitTwo ==
    /\ data \in TwoEvents
    /\ parked \in {<<StartLocals(d)>> : d \in TwoEvents}
    /\ Fresh

\* The running call is suspended and the parked one goes on.
Switch ==
    /\ parked # << >>
    /\ parked' = <<Locals>>
    /\ data' = parked[1].data
    /\ pc' = parked[1].pc
    /\ model' = parked[1].model
    /\ report' = parked[1].report
    /\ report_dump' = parked[1].report_dump
    /\ message_blocks' = parked[1].message_blocks
    /\ bird_idx' = parked[1].bird_idx
    /\ lookups' = parked[1].lookups
    /\ raised' = parked[1].raised
    /\ report_builds' = parked[1].report_builds
    /\ UNCHANGED <<fired, format_calls, birds_sighted_default, host_vars>>

NextTwo ==
    \/ Validate
    \/ LogReport
    \/ DumpReport
    \/ FormatHeader
    \/ RenderBird
    \/ FireEvent
    \/ Switch

SpecTwo == InitTwo /\ [][NextTwo]_vars

(***************************************************************************)
(* The life cycle of the app instances: the host calls initialize and      *)
(* terminate.                                                              *)
(***************************************************************************)
InitLifecycle ==
    /\ data = Event(<<Media1>>, GoodToken, << >>)
    /\ parked = << >>
    /\ Fresh

\* initialize: listen_event returns a new handle, which is appended to the
\* list.
Initialize(app) ==
    /\ Len(registered) < MaxInitialize
    /\ LET handle == Len(registered) + 1 IN
       /\ registered' = Append(registered, [handle |-> handle, by |-> app])
       /\ listen_event_handle_list' = Append(listen_event_handle_list, handle)
    /\ UNCHANGED <<call_vars, fired, format_calls, birds_sighted_default, parked,
                   cancelled>>

\* terminate: cancel_listen_event for every handle of the list, which stays
\* as it is.
Terminate(app) ==
    /\ Len(cancelled) + Len(listen_event_handle_list) <= MaxCancels
    /\ cancelled' =
          cancelled \o [i \in DOMAIN listen_event_handle_list |->
                          [handle |-> listen_event_handle_list[i], by |-> app]]
    /\ UNCHANGED <<call_vars, fired, format_calls, birds_sighted_default, parked,
                   listen_event_handle_list, registered>>

NextLifecycle ==
    \/ \E app \in Apps : Initialize(app)
    \/ \E app \in Apps : Terminate(app)

SpecLifecycle == InitLifecycle /\ [][NextLifecycle]_vars

(***************************************************************************)
(* Properties.                                                             *)
(***************************************************************************)
Built == report # << >>

Birds == report[1].birds_sighted

Sightings == model[1].sighting.sighting_report.sightings

Medias == model[1].sighting.medias

RawSightings == data.sighting.sightingReport.sightings

RawToken == data.sighting.sightingReport.reportToken

Recognized(s) == s.cls = "SightingRecognizedBird"

Ambiguous(s) == s.cls = "SightingCantDecideWhichBird"

\* A sighting that resolves to a species, and the species it resolves to.
Resolvable(s) == Recognized(s) \/ (Ambiguous(s) /\ Len(s.suggestions) >= 1)

ResolvedSpecies(s) == IF Recognized(s) THEN s.species ELSE s.suggestions[1].species

\* The position in birds_sighted of the bird of the i-th sighting.
BirdIndex(i) == Cardinality({j \in 1..i : Resolvable(Sightings[j])})

RemoveAt(seq, i) == SubSeq(seq, 1, i - 1) \o SubSeq(seq, i + 1, Len(seq))

\* C1: when every sighting of the event is a recognized sighting or an
\* ambiguous sighting with a non-empty suggestion list, birds_sighted has one
\* entry per sighting and the i-th entry carries the species resolved from
\* the i-th sighting: no reordering, no deduplication.
C1_OneBirdPerSightingInOrder ==
    (Built /\ \A i \in DOMAIN Sightings : Resolvable(Sightings[i]))
    => /\ Len(Birds) = Len(Sightings)
       /\ \A i \in DOMAIN Sightings : Birds[i].species = ResolvedSpecies(Sightings[i])

\* Two sightings, one recognized and one ambiguous, resolve to the same
\* species and both are in the report.
C1_Witness ==
    /\ Built
    /\ Len(Sightings) = 2
    /\ Recognized(Sightings[1]) /\ Ambiguous(Sightings[2])
    /\ Len(Sightings[2].suggestions) >= 1
    /\ ResolvedSpecies(Sightings[1]) = ResolvedSpecies(Sightings[2])
    /\ Len(Birds) = 2
    /\ Birds[1].species = Birds[2].species

\* The content urls of the medias whose id is among the tokens, in the order
\* of the medias.
MatchedUrls(medias, tokens) ==
    LET matched == SelectSeq(medias, LAMBDA m : \E t \in DOMAIN tokens : tokens[t] = m.id)
    IN  [k \in DOMAIN matched |-> matched[k].content_url]

\* C2: the image_urls of the bird of a sighting are the content urls of the
\* event's medias whose id is one of the sighting's match tokens, in the
\* order of the medias list; tokens that are no media's id add nothing, and
\* tokens matching exactly one media give exactly that media's content url.
C2_ImageUrlsInMediaOrder ==
    Built =>
      \A i \in DOMAIN Sightings :
        Resolvable(Sightings[i]) =>
          LET urls == Birds[BirdIndex(i)].image_urls
              ids == Range(Sightings[i].match_tokens)
              hits == {k \in DOMAIN Medias : Medias[k].id \in ids}
          IN  /\ urls = MatchedUrls(Medias, Sightings[i].match_tokens)
              /\ Len(urls) = Cardinality(hits)
              /\ \A k \in hits : Cardinality(hits) = 1 => urls = <<Medias[k].content_url>>

\* Match tokens m-1, m-9, m-2 against the medias m-2, m-1: the unknown token
\* adds nothing and the urls come in the order of the medias.
C2_Witness ==
    /\ Built
    /\ Len(Sightings) = 1 /\ Len(Birds) = 1
    /\ Sightings[1].match_tokens = <<"m-1", "m-9", "m-2">>
    /\ Len(Medias) = 2
    /\ Medias[1].id = "m-2" /\ Medias[2].id = "m-1"
    /\ Birds[1].image_urls = <<Medias[1].content_url, Medias[2].content_url>>

\* C3: an ambiguous sighting with a non-empty suggestion list contributes
\* exactly one bird, and its species is that of the first suggestion,
\* whatever the isCollected flags.
C3_FirstSuggestionWins ==
    Built =>
      /\ Len(Birds) = Cardinality({j \in DOMAIN Sightings : Resolvable(Sightings[j])})
      /\ \A i \in DOMAIN Sightings :
           (Ambiguous(Sightings[i]) /\ Len(Sightings[i].suggestions) >= 1)
           => Birds[BirdIndex(i)].species = Sightings[i].suggestions[1].species

\* Two suggestions of different species, only the second one collected: the
\* bird is the first one's.
C3_Witness ==
    /\ Built
    /\ Len(Sightings) = 1 /\ Ambiguous(Sightings[1])
    /\ Len(Sightings[1].suggestions) = 2
    /\ ~Sightings[1].suggestions[1].is_collected
    /\ Sightings[1].suggestions[2].is_collected
    /\ Sightings[1].suggestions[1].species # Sightings[1].suggestions[2].species
    /\ Len(Birds) = 1
    /\ Birds[1].species = Sightings[1].suggestions[1].species

\* The model with the i-th sighting taken out of the sighting report.
WithoutSighting(m, i) ==
    [m EXCEPT !.sighting.sighting_report.sightings = RemoveAt(@, i)]

\* C4: an ambiguous sighting with an empty suggestion list contributes no
\* bird: the report is the report of the event without that sighting.
C4_EmptySuggestionsContributeNothing ==
    Built =>
      \A i \in DOMAIN Sightings :
        (Ambiguous(Sightings[i]) /\ Sightings[i].suggestions = << >>)
        => /\ report[1] = BuildReport(WithoutSighting(model[1], i))
           /\ Len(Birds) <= Len(Sightings) - 1

\* An ambiguous sighting without suggestions whose match token is a media's
\* id, followed by a recognized sighting without match tokens.
C4_Witness ==
    /\ Built
    /\ Len(Sightings) = 2
    /\ Ambiguous(Sightings[1]) /\ Sightings[1].suggestions = << >>
    /\ Sightings[1].match_tokens = <<"m-1">>
    /\ Recognized(Sightings[2]) /\ Sightings[2].match_tokens = << >>
    /\ Len(Birds) = 1
    /\ Birds[1].species = Sightings[2].species
    /\ Birds[1].image_urls = << >>

Validated == model # << >>

HasSuggestionList(raw) == "suggestions" \in DOMAIN raw

HasNonEmptySuggestions(raw) == HasSuggestionList(raw) /\ raw.suggestions # << >>

HasRecognizedFields(raw) == RecognizedKeys \subseteq DOMAIN raw

AllSightingsValid ==
    \A i \in DOMAIN RawSightings :
      HasRecognizedFields(RawSightings[i]) \/ HasSuggestionList(RawSightings[i])

Undecodable(t) ==
    \/ t.kind = "str"
    \/ t.kind = "jwt" /\ ~t.payload_json
    \/ t.kind = "jwt" /\ t.payload_json /\ "reportToken" \notin DOMAIN t.payload

\* C7: every report token that cannot be decoded fails construction with the
\* validator's 'Invalid JWT token' error, and with no other kind of error.
C7_OneTokenDecodeError ==
    (pc # "start" /\ Undecodable(RawToken))
    => /\ pc = "raised"
       /\ raised.kind = "ValidationError"
       /\ "Invalid JWT token" \in raised.msgs

\* The header text of a report with n birds.
ExpectedHeader(n) ==
    IF n = 1 THEN <<"New Bird Sighting! ", "1", " ", "bird", " sighted!">>
    ELSE <<"New Bird Sighting! ", Str(n), " ", "birds", " sighted!">>

BlocksOfType(blocks, t) == {k \in DOMAIN blocks : blocks[k].type = t}

\* C8: the header says 'N bird sighted!' exactly when N = 1 and 'N birds
\* sighted!' otherwise, N being the number of birds rendered below it.
C8_HeaderCountAndPlural ==
    message_blocks # << >> =>
      /\ message_blocks[1].type = "header"
      /\ message_blocks[1].text.text = ExpectedHeader(Len(Birds))
      /\ (message_blocks[1].text.text[4] = "bird") <=> (Len(Birds) = 1)
      /\ pc = "done" =>
           /\ Cardinality(BlocksOfType(message_blocks, "context")) = Len(Birds)
           /\ Cardinality(BlocksOfType(message_blocks, "section")) = Len(Birds)

\* A report without birds is rendered with the plural.
C8_Witness ==
    /\ pc = "done"
    /\ Len(Birds) = 0
    /\ message_blocks[1].text.text = <<"New Bird Sighting! ", "0", " ", "birds", " sighted!">>

\* The types of the blocks of the first n birds, and the image urls among them.
RECURSIVE ExpectedTypes(_, _)
ExpectedTypes(birds, n) ==
    IF n = 0 THEN <<"header", "divider">>
    ELSE ExpectedTypes(birds, n - 1) \o <<"context", "section">>
         \o [k \in DOMAIN birds[n].image_urls |-> "image"]

RECURSIVE ExpectedImages(_, _)
ExpectedImages(birds, n) ==
    IF n = 0 THEN << >>
    ELSE ExpectedImages(birds, n - 1)
         \o [k \in DOMAIN birds[n].image_urls |-> birds[n].image_urls[k].url]

RECURSIVE SumBlocks(_, _)
SumBlocks(birds, n) ==
    IF n = 0 THEN 2 ELSE SumBlocks(birds, n - 1) + 2 + Len(birds[n].image_urls)

ImagesOf(blocks) ==
    LET imgs == SelectSeq(blocks, LAMBDA b : b.type = "image")
    IN  [k \in DOMAIN imgs |-> imgs[k].image_url]

\* C9: the blocks are a header, a divider, and for each bird in report order
\* a context block, a section block and one image block per image url in
\* order: 2 + the sum over the birds of (2 + number of image urls) blocks,
\* which grows with every bird.
C9_BlockSequence ==
    /\ pc = "done" =>
         LET blocks == fired[1].slack_message IN
         /\ [k \in DOMAIN blocks |-> blocks[k].type] = ExpectedTypes(Birds, Len(Birds))
         /\ ImagesOf(blocks) = ExpectedImages(Birds, Len(Birds))
         /\ Len(blocks) = SumBlocks(Birds, Len(Birds))
         /\ \A n \in 1..Len(Birds) : SumBlocks(Birds, n) > SumBlocks(Birds, n - 1)
    /\ pc = "rendering" =>
         /\ [k \in DOMAIN message_blocks |-> message_blocks[k].type]
              = ExpectedTypes(Birds, bird_idx - 1)
         /\ Len(message_blocks) = SumBlocks(Birds, bird_idx - 1)

\* A rendered report of one bird with two image urls: six blocks.
C9_Witness ==
    /\ pc = "done"
    /\ Len(Birds) = 1
    /\ Len(Birds[1].image_urls) = 2
    /\ Len(fired[1].slack_message) = 6
    /\ fired[1].slack_message[5].type = "image"
    /\ fired[1].slack_message[6].image_url = Birds[1].image_urls[2].url

\* C10: when the lookup for a bird raises, rendering still completes: no
\* error leaves process_event and the bird's section carries the fallback
\* text '<species name> was sighted!'.
C10_LookupFailureFallsBack ==
    \A i \in DOMAIN lookups :
      LookupRaises(lookups[i]) =>
        /\ pc # "raised"
        /\ raised = NoError
        /\ \E k \in DOMAIN message_blocks :
             /\ message_blocks[k].type = "section"
             /\ message_blocks[k].text.text = <<Birds[i].species.name, " was sighted!">>

SectionTexts ==
    LET secs == SelectSeq(message_blocks, LAMBDA b : b.type = "section")
    IN  [k \in DOMAIN secs |-> secs[k].text.text]

\* C11: the text of a bird's section block is the linked page title followed
\* by the page summary when the lookup finds a page, and is exactly
\* '<species name> was sighted!' when the lookup finds nothing.
C11_SectionTextTitleAndSummary ==
    \A i \in DOMAIN SectionTexts :
      /\ lookups[i].search = "found" =>
           SectionTexts[i] = <<"*<", lookups[i].url, "|", lookups[i].title, ">*\n",
                               lookups[i].summary>>
      /\ lookups[i].search = "empty" =>
           SectionTexts[i] = <<Birds[i].species.name, " was sighted!">>

\* C12: a call of process_event ends fired or raised and in no other way.
\* When it has fired, it fired exactly one event, named
\* birdbuddy_new_postcard_sighting_report, carrying the dumped report and
\* the complete block sequence; when an error left it, nothing was fired; and
\* before it ends nothing is fired.
C12_OneFullEventOrNone ==
    /\ Len(fired) <= 1
    /\ pc = "done" <=> Len(fired) = 1
    /\ pc = "done" =>
         /\ raised = NoError
         /\ DOMAIN fired[1] = {"name", "report", "slack_message"}
         /\ fired[1].name = "birdbuddy_new_postcard_sighting_report"
         /\ fired[1].report = ModelDump(report[1])
         /\ fired[1].slack_message = message_blocks
         /\ Len(SectionTexts) = Len(Birds)
    /\ pc = "raised" <=> raised # NoError
    /\ pc = "raised" => fired = << >>
    /\ ~ENABLED Next => pc \in {"done", "raised"}

\* A call that failed while rendering, after the report was dumped and the
\* first bird rendered, has fired nothing.
C12_Witness ==
    /\ pc = "raised"
    /\ raised.kind = "WikipediaException"
    /\ report_dump # << >>
    /\ Len(message_blocks) > 2
    /\ fired = << >>

\* C13: dumping the report and validating the dump as an AutomationReport
\* succeeds and gives the same feeder id and the same species in the same
\* order, also for reports with birds.
C13_DumpRoundTrip ==
    report_dump # << >> =>
      LET back == AutomationReport(report_dump[1]) IN
      /\ back.ok
      /\ back.value.feeder.id = report[1].feeder.id
      /\ [i \in DOMAIN back.value.birds_sighted |-> back.value.birds_sighted[i].species]
           = [i \in DOMAIN Birds |-> Birds[i].species]

\* C16: in one call of format_slack_message the lookup runs at most once for
\* each bird: one lookup for each bird rendered so far, never more lookups
\* than birds, and a lookup that raised or found nothing is the only one of
\* its bird.
C16_OneLookupPerBird ==
    /\ Len(lookups) <= (IF Built THEN Len(Birds) ELSE 0)
    /\ pc \in {"rendering", "done"} =>
         /\ Len(lookups) = bird_idx - 1
         /\ \A i \in DOMAIN lookups : ~LookupRaises(lookups[i])
    /\ (pc = "raised" /\ lookups # << >>) =>
         /\ Len(lookups) = bird_idx
         /\ \A i \in DOMAIN lookups : LookupRaises(lookups[i]) <=> i = Len(lookups)

\* The first bird's lookup found nothing, the second bird's lookup raised:
\* two lookups for two birds.
C16_Witness ==
    /\ pc = "raised"
    /\ Built
    /\ Len(Birds) = 2
    /\ Len(lookups) = 2
    /\ lookups[1].search = "empty"
    /\ LookupRaises(lookups[2])

\* C17: each sighting contributes at most one bird: no sighting passes both
\* the recognized branch and the suggestions branch, and birds_sighted is
\* never longer than the list of sightings.
C17_AtMostOneBirdPerSighting ==
    Built =>
      /\ Len(Birds) <= Len(Sightings)
      /\ \A i \in DOMAIN Sightings :
           /\ ~(IsRecognized(Sightings[i]) /\ HasSuggestions(Sightings[i]))
           /\ Len(SightingBirds(model[1].sighting, Sightings[i])) <= 1

\* A sighting object that carries the recognized field set, a non-empty
\* suggestions list and no type tag yields one bird, not two.
C17_Witness ==
    /\ Built
    /\ Len(RawSightings) = 1
    /\ HasRecognizedFields(RawSightings[1])
    /\ HasNonEmptySuggestions(RawSightings[1])
    /\ "__typename" \notin DOMAIN RawSightings[1]
    /\ Len(Sightings) = 1
    /\ Len(Birds) = 1

\* What the event of a call yields when it is processed alone.
AloneReport(c) == BuildReport(BBEventModel(c.data).value)

AloneBlocks(r, looks) ==
    LET blocks[i \in 0..Len(looks)] ==
            IF i = 0
            THEN <<HeaderBlock(HeaderText(Len(r.birds_sighted))), DividerBlock>>
            ELSE blocks[i - 1] \o create_slack_blocks(r.birds_sighted[i], looks[i])
    IN  blocks[Len(looks)]

Undisturbed(c) ==
    /\ c.report # << >> => c.report[1] = AloneReport(c)
    /\ c.report_dump # << >> => c.report_dump[1] = ModelDump(AloneReport(c))
    /\ c.pc = "done" =>
         /\ Len(c.lookups) = Len(AloneReport(c).birds_sighted)
         /\ [name |-> emit_event_name, report |-> ModelDump(AloneReport(c)),
             slack_message |-> AloneBlocks(AloneReport(c), c.lookups)] \in Range(fired)

Calls == <<Locals>> \o parked

\* C14: two calls of process_event, interleaved in any way, do not influence
\* each other: the report, the dump and the fired event of each call are what
\* its event yields alone, one event is fired per finished call, and the
\* default birds_sighted list stays empty, so no bird of one report shows up
\* in the other.
C14_CallsDoNotInterfere ==
    /\ birds_sighted_default = << >>
    /\ \A k \in DOMAIN Calls : Undisturbed(Calls[k])
    /\ Len(fired) = Cardinality({k \in DOMAIN Calls : Calls[k].pc = "done"})

\* Both calls have fired, on different events that each have birds; the
\* running call fired last.
C14_Witness ==
    /\ Len(Calls) = 2
    /\ \A k \in DOMAIN Calls :
         /\ Calls[k].pc = "done"
         /\ Calls[k].report[1].birds_sighted # << >>
    /\ data # parked[1].data
    /\ Len(fired) = 2
    /\ fired[2].report = report_dump[1]
    /\ fired[1].report # fired[2].report

\* C15: the body of the report property runs at most once for one formatter:
\* once the report exists it is the report of the one build pass, whatever
\* number of accesses and calls of format_slack_message follow.
C15_ReportBuiltOnce ==
    /\ report_builds <= 1
    /\ report = << >> <=> report_builds = 0
    /\ report # << >> => report[1] = BuildReport(model[1])

\* Three accesses and two full calls of format_slack_message on a report
\* with two birds, after one build pass.
C15_Witness ==
    /\ pc = "returned"
    /\ format_calls = 2
    /\ report_dump # << >>
    /\ Len(report[1].birds_sighted) = 2
    /\ report_builds = 1

\* C18: no handle is passed to cancel_listen_event more than once, and the
\* instance whose terminate cancels a handle is the one that registered it.
C18_HandlesCancelledOnceByOwner ==
    /\ \A i, j \in DOMAIN cancelled :
         cancelled[i].handle = cancelled[j].handle => i = j
    /\ \A i \in DOMAIN cancelled :
         cancelled[i].by = registered[cancelled[i].handle].by

====
